---- MODULE Spec2Model ----
(***************************************************************************)
(* StackSet drift detection: the evaluation Lambda (lib/lambda/            *)
(* evaluation.py) and the parts of the CDK stack (lib/stack.py) that wire  *)
(* it to the notification topic.                                           *)
(*                                                                         *)
(* Strings that the handler takes apart or puts together (the stackset    *)
(* ARN, the stackset name, the notification subject) are sequences of     *)
(* tokens.  The token ":" is the one-character string ":", the token      *)
(* "stackset/" the nine-character string "stackset/", so the separator    *)
(* ":stackset/" of the handler is the two-token sequence Marker.  No      *)
(* other token contains ":" or "/", hence an occurrence of a separator in *)
(* the string is an occurrence of it in the token sequence.               *)
(*                                                                         *)
(* Python dicts are functions whose DOMAIN is the set of keys present.    *)
(***************************************************************************)
EXTENDS Naturals, Sequences, FiniteSets, TLC

VARIABLES
    pool,       \* the completion events the event source can deliver
    store,      \* the StackSetOperation records describe can return
    budget,     \* deliveries left
    inv,        \* per execution environment: the running invocation
    channels,   \* per SNS topic / SQS queue of the stack: messages received
    pending,    \* failure records Lambda has still to send
    done        \* finished invocations, in order of completion

vars == <<pool, store, budget, inv, channels, pending, done>>

----------------------------------------------------------------------------
(* Bounds *)

MaxRefLen == 6

MaxDeliveries == 3

MaxCrashRuns == 2

----------------------------------------------------------------------------
(* Strings *)

Colon == <<":">>

Marker == <<":", "stackset/">>

Tokens == {":", "stackset/", "a"}

\* Index of the first occurrence of sep in s, 0 when there is none.
Find(s, sep) ==
    LET hits == {i \in 1..(Len(s) + 1 - Len(sep)) :
                    SubSeq(s, i, i + Len(sep) - 1) = sep}
    IN IF hits = {} THEN 0 ELSE CHOOSE i \in hits : \A j \in hits : i <= j

\* str.split(sep): the pieces between the non-overlapping occurrences of sep,
\* found left to right.
RECURSIVE Split(_, _)
Split(s, sep) ==
    LET i == Find(s, sep)
    IN IF i = 0 THEN <<s>>
       ELSE <<SubSeq(s, 1, i - 1)>> \o Split(SubSeq(s, i + Len(sep), Len(s)), sep)

\* stackset_arn.split(":stackset/")[1] raises IndexError when there is no marker.
HasMarker(arn) == Len(Split(arn, Marker)) >= 2

\* The name taken after the last marker instead of the first.
StacksetNameLastMarker(arn) ==
    Split(Split(arn, Marker)[Len(Split(arn, Marker))], Colon)[1]

\* stackset_arn.split(":stackset/")[1].split(":")[0]
StacksetName(arn) == Split(Split(arn, Marker)[2], Colon)[1]

----------------------------------------------------------------------------
(* Python values *)

\* A value inside a response carries its Python type: a str, an int, a
\* datetime, None, a list or a tuple of such values, or a dict from keys to
\* such values.  A dict that the handler subscripts directly (event, detail,
\* operation_details) is the function itself.
Str(s) == [str |-> s]

Int(n) == [int |-> n]

\* A datetime value of the response, e.g. CreationTimestamp.
Datetime(t) == [datetime |-> t]

Dict(d) == [dict |-> d]

List(l) == [list |-> l]

Tuple(l) == [tuple |-> l]

\* Python's None, as returned by dict.get for a missing key.
None == [none |-> TRUE]

\* The dict with no keys.
EmptyDict == <<>>

\* A local of the handler that is not assigned yet.
Unset == "<unset>"

\* No exception was raised.
NoException == "<none>"

\* d.get(k)
Get(d, k) == IF k \in DOMAIN d THEN d[k] ELSE None

\* d.get(k, default)
GetOrDefault(d, k, default) == IF k \in DOMAIN d THEN d[k] ELSE default

----------------------------------------------------------------------------
(* The deployed stack *)

\* The SNS topic and the SQS queue the stack creates.
ChannelNames == {"DeliveryTopic", "SchedulerCommonDLQ"}

\* environment["NOTIFICATION_TOPIC_ARN"] = notifications_topic.topic_arn
NOTIFICATION_TOPIC_ARN == "DeliveryTopic"

\* on_failure = destinations.SnsDestination(notifications_topic)
OnFailureDestinationDLQ == "SchedulerCommonDLQ"

OnFailureDestination == "DeliveryTopic"

\* The execution environments of the evaluation function that run at a time.
Slots == {"env1", "env2"}

\* The function is created without retry_attempts: an asynchronous
\* invocation that fails is run again, twice at most.
RetryAttempts == 2

----------------------------------------------------------------------------
(* Events and operation records *)

Event(detail) == "detail" :> detail

Detail(arn, opid) == ("stack-set-arn" :> arn) @@ ("stack-set-operation-id" :> opid)

\* All token sequences of length at most n.
RECURSIVE SeqsUpTo(_)
SeqsUpTo(n) ==
    IF n = 0 THEN {<<>>}
    ELSE LET shorter == SeqsUpTo(n - 1)
         IN shorter \cup {Append(s, t) : s \in {x \in shorter : Len(x) = n - 1},
                                          t \in Tokens}

Refs == SeqsUpTo(MaxRefLen)

OperationIds == {"op1", "op2"}

\* Every shape of event the handler can be handed: no detail, a detail that
\* lacks either key, and every reference up to the bound.
AllEvents ==
    {EmptyDict, Event(EmptyDict), Event("stack-set-operation-id" :> "op1")}
    \cup {Event("stack-set-arn" :> a) : a \in Refs}
    \cup {Event(Detail(a, "op1")) : a \in Refs}

Statuses == {"RUNNING", "SUCCEEDED", "FAILED", "STOPPED", "STOPPING", "QUEUED"}

DriftStatuses == {"DETECTION_FAILED", "DRIFTED", "IN_SYNC", "NOT_CHECKED"}

\* StackSetDriftDetectionDetails, with or without its DriftStatus; the time
\* of the last drift check comes with the status.
DriftDetails ==
    {EmptyDict}
    \cup {("DriftStatus" :> Str(ds)) @@ ("LastDriftCheckTimestamp" :> Datetime(2)) :
            ds \in DriftStatuses}

\* The preferences the operation ran with: those the schedule starts the
\* drift detection with.
OperationPreferences ==
    Dict(("RegionConcurrencyType" :> Str("PARALLEL"))
           @@ ("MaxConcurrentCount" :> Int(10))
           @@ ("ConcurrencyMode" :> Str("SOFT_FAILURE_TOLERANCE")))

\* What every StackSetOperation carries.
OperationBase(status) ==
    ("Status" :> Str(status)) @@ ("CreationTimestamp" :> Datetime(1))
        @@ ("OperationPreferences" :> OperationPreferences)

\* StatusDetails of an operation that failed.
StatusDetails == Dict("FailedStackInstancesCount" :> Int(1))

\* StackSetOperation of a describe_stack_set_operation response; the drift
\* details are there for drift detection operations only, the status
\* details for some of the failed ones.
OperationsWithoutStatusDetails ==
    {OperationBase(st) : st \in Statuses}
    \cup {OperationBase(st) @@ ("StackSetDriftDetectionDetails" :> Dict(dd)) :
          st \in Statuses, dd \in DriftDetails}

AllOperations ==
    OperationsWithoutStatusDetails
    \cup {d @@ ("StatusDetails" :> StatusDetails) :
            d \in {o \in OperationsWithoutStatusDetails : o["Status"] = Str("FAILED")}}

----------------------------------------------------------------------------
(* The handler *)

\* An execution environment with no invocation in it.
Idle ==
    [pc |-> "idle", event |-> EmptyDict, stackset_name |-> <<>>,
     stackset_operation_id |-> Unset, operation_details |-> EmptyDict,
     subject |-> <<>>, error |-> NoException, queries |-> 0, attempts |-> 0,
     pubs |-> <<>>, retries |-> 0]

Raise(r, exception) == [r EXCEPT !.pc = "raised", !.error = exception]

\* lambda_handler up to the describe call: the lookups of detail,
\* stack-set-arn and stack-set-operation-id and the two splits, in the order
\* of the code.
Interpret(event) ==
    LET r == [Idle EXCEPT !.event = event]
    IN IF "detail" \notin DOMAIN event THEN Raise(r, "KeyError")
       ELSE LET detail == event["detail"]
            IN IF "stack-set-arn" \notin DOMAIN detail THEN Raise(r, "KeyError")
               ELSE IF ~HasMarker(detail["stack-set-arn"])
                    THEN Raise(r, "IndexError")
               ELSE IF "stack-set-operation-id" \notin DOMAIN detail
                    THEN Raise(r, "KeyError")
               ELSE [r EXCEPT
                       !.pc = "query",
                       !.stackset_name = StacksetName(detail["stack-set-arn"]),
                       !.stackset_operation_id = detail["stack-set-operation-id"]]

ErrorSubject(stackset_name) ==
    <<"ERROR:", " StackSet ">> \o stackset_name \o <<" drift detection failed">>

DriftedSubject(stackset_name) ==
    <<"DRIFTED:", " StackSet ">> \o stackset_name \o <<" is in the drifted state">>

\* The second test of the handler, on the DriftStatus it read with .get.
NotInSync(stackset_drift_status) == stackset_drift_status # Str("IN_SYNC")

\* stackset_drift_detection_details = operation_details["StackSetDriftDetectionDetails"]:
\* the subscript raises KeyError when the key is missing.
ReadDriftDetailsOrEmpty(operation_details) ==
    [raised |-> FALSE,
     value |-> IF "StackSetDriftDetectionDetails" \in DOMAIN operation_details
               THEN operation_details["StackSetDriftDetectionDetails"]
               ELSE Dict(EmptyDict)]

ReadDriftDetails(operation_details) ==
    IF "StackSetDriftDetectionDetails" \in DOMAIN operation_details
    THEN [raised |-> FALSE, value |-> operation_details["StackSetDriftDetectionDetails"]]
    ELSE [raised |-> TRUE, value |-> None]

\* The first branch of the handler, up to its publish call:
\* operation_details.get("StatusDetails", {}) and the .get on what it
\* returned, which raises AttributeError on anything but a dict.
FailedBranch(q, operation_details) ==
    LET operation_status_details ==
            GetOrDefault(operation_details, "StatusDetails", Dict(EmptyDict))
    IN IF "dict" \notin DOMAIN operation_status_details
       THEN Raise(q, "AttributeError")
       ELSE [q EXCEPT !.pc = "publish", !.subject = ErrorSubject(q.stackset_name)]

\* lambda_handler from the return of the describe call to the publish call or
\* the return: the reads of the response in the order of the code, each
\* subscript raising KeyError on a missing key, then the two tests.
Evaluate(r, response) ==
    IF "StackSetOperation" \notin DOMAIN response
    THEN Raise([r EXCEPT !.queries = @ + 1], "KeyError")
    ELSE
    LET operation_details == response["StackSetOperation"]
        q == [r EXCEPT !.operation_details = operation_details, !.queries = @ + 1]
    IN IF "Status" \notin DOMAIN operation_details THEN Raise(q, "KeyError")
       ELSE
       LET operation_status == operation_details["Status"]
           read == ReadDriftDetails(operation_details)
       IN IF read.raised THEN Raise(q, "KeyError")
          ELSE IF "dict" \notin DOMAIN read.value THEN Raise(q, "AttributeError")
          ELSE IF operation_status \in {Str("FAILED"), Str("STOPPED")}
          THEN FailedBranch(q, operation_details)
          ELSE IF NotInSync(Get(read.value.dict, "DriftStatus"))
          THEN [q EXCEPT !.pc = "publish", !.subject = DriftedSubject(r.stackset_name)]
          ELSE [q EXCEPT !.pc = "returned"]

\* The types json encodes by itself.
JsonTypes == {"dict", "list", "tuple", "str", "int", "float", "bool", "none"}

\* default=str: json.dumps calls str on every value it cannot encode,
\* wherever in the document the value stands.
DefaultStr(v) == Str(ToString(v))

\* json.dumps(obj, default=str), as the document it writes: dicts are encoded
\* key by key and lists and tuples element by element, as arrays, at any
\* depth.
RECURSIVE JsonDumps(_)
JsonDumps(obj) ==
    IF "dict" \in DOMAIN obj
    THEN Dict([k \in DOMAIN obj.dict |-> JsonDumps(obj.dict[k])])
    ELSE IF "list" \in DOMAIN obj
    THEN List([i \in DOMAIN obj.list |-> JsonDumps(obj.list[i])])
    ELSE IF "tuple" \in DOMAIN obj
    THEN List([i \in DOMAIN obj.tuple |-> JsonDumps(obj.tuple[i])])
    ELSE IF DOMAIN obj \subseteq JsonTypes THEN obj
    ELSE DefaultStr(obj)

\* The message the handler hands to publish_to_topic.
MessageDriftOnly(r) == r.operation_details["StackSetDriftDetectionDetails"].dict

MessageOf(r) == r.operation_details

\* The keyword arguments publish_to_topic passes to sns_client.publish.
PublishRequest(subject, message) ==
    [TopicArn |-> NOTIFICATION_TOPIC_ARN,
     Subject |-> subject,
     Message |-> JsonDumps(Dict("default" :> Dict(message)))]

\* A successful sns_client.publish: the topic receives the message.
SnsPublishOnce(ch, request) ==
    IF \E i \in 1..Len(ch[request.TopicArn]) :
          ch[request.TopicArn][i].Subject = request.Subject
    THEN ch
    ELSE [ch EXCEPT ![request.TopicArn] =
            Append(@, [Subject |-> request.Subject, Message |-> request.Message])]

SnsPublish(ch, request) ==
    [ch EXCEPT ![request.TopicArn] =
        Append(@, [Subject |-> request.Subject, Message |-> request.Message])]

\* What the describe call's failure does to the invocation: nothing catches it.
QueryFailedRetry(r) == [r EXCEPT !.queries = @ + 1]

QueryFailed(r) == Raise([r EXCEPT !.queries = @ + 1], "QueryError")

\* The record Lambda sends to the on-failure destination of the function
\* for an invocation whose last run raised.
FailureRecord(r) ==
    [Subject |-> <<>>,
     Message |-> ("requestPayload" :> r.event) @@ ("errorType" :> r.error)]

----------------------------------------------------------------------------
(* The system *)

\* The events and operation records of the deployment that the concurrent
\* runs draw from: two operations of one stackset, and one record for each
\* way the handler can end.
DeployedArn == <<"a", ":", "stackset/", "a", ":", "a">>

DeployedEvents == {Event(Detail(DeployedArn, op)) : op \in OperationIds}

Operation(status, drift) ==
    OperationBase(status)
        @@ ("StackSetDriftDetectionDetails" :>
              Dict(("DriftStatus" :> Str(drift))
                     @@ ("LastDriftCheckTimestamp" :> Datetime(2))))

DeployedOperations ==
    {Operation("FAILED", "DRIFTED"),
     Operation("SUCCEEDED", "DRIFTED"),
     Operation("SUCCEEDED", "IN_SYNC")}

InitCommon ==
    /\ inv = [s \in Slots |-> Idle]
    /\ channels = [c \in ChannelNames |-> <<>>]
    /\ pending = <<>>
    /\ done = <<>>

\* The deployed system: events of the monitored stackset arrive repeatedly.
Init ==
    /\ pool = DeployedEvents
    /\ store = DeployedOperations
    /\ budget = MaxDeliveries
    /\ InitCommon

\* Invocations that can end in each of the unhandled errors: an event with no
\* marker in its reference, an operation record without drift details, and
\* the failures of the two calls.
CrashEvents == {Event(Detail(DeployedArn, "op1")), Event(Detail(<<"a">>, "op1"))}

InitCrash ==
    /\ pool = CrashEvents
    /\ store = {Operation("SUCCEEDED", "DRIFTED"), OperationBase("SUCCEEDED")}
    /\ budget = MaxCrashRuns
    /\ InitCommon

\* One invocation of the handler: any event, and any record of the operation
\* in CloudFormation; no record when the event does not get the handler to
\* the describe call.
InitEval ==
    /\ \E e \in AllEvents, d \in AllOperations :
          /\ pool = {e}
          /\ store = IF Interpret(e).pc = "query" THEN {d} ELSE {}
    /\ budget = 1
    /\ InitCommon

\* The rule's target invokes the function: lambda_handler runs up to the
\* describe call, or raises on the way.
Deliver(s) ==
    /\ inv[s].pc = "idle"
    /\ budget > 0
    /\ \E e \in pool : inv' = [inv EXCEPT ![s] = Interpret(e)]
    /\ budget' = budget - 1
    /\ UNCHANGED <<pool, store, channels, pending, done>>

\* describe_stack_set_operation returns; the handler runs on to the publish
\* call, to its return or to an exception.
DescribeOk(s) ==
    /\ inv[s].pc = "query"
    /\ \E d \in store :
          inv' = [inv EXCEPT ![s] = Evaluate(inv[s], "StackSetOperation" :> d)]
    /\ UNCHANGED <<pool, store, budget, channels, pending, done>>

\* describe_stack_set_operation raises.
DescribeFail(s) ==
    /\ inv[s].pc = "query"
    /\ inv' = [inv EXCEPT ![s] = QueryFailed(inv[s])]
    /\ UNCHANGED <<pool, store, budget, channels, pending, done>>

\* sns_client.publish succeeds; the handler returns.
PublishOk(s) ==
    /\ inv[s].pc = "publish"
    /\ LET request == PublishRequest(inv[s].subject, MessageOf(inv[s]))
           before == Len(channels[request.TopicArn])
           after == SnsPublish(channels, request)
       IN /\ channels' = after
          /\ inv' = [inv EXCEPT ![s] =
                [@ EXCEPT !.pc = "returned",
                          !.attempts = @ + 1,
                          !.pubs = @ \o SubSeq(after[request.TopicArn], before + 1,
                                               Len(after[request.TopicArn]))]]
    /\ UNCHANGED <<pool, store, budget, pending, done>>

\* sns_client.publish raises; nothing catches it.
PublishFail(s) ==
    /\ inv[s].pc = "publish"
    /\ inv' = [inv EXCEPT ![s] =
                  Raise([@ EXCEPT !.attempts = @ + 1], "NotificationError")]
    /\ UNCHANGED <<pool, store, budget, channels, pending, done>>

\* The run raised and attempts are left: Lambda runs the handler again on
\* the same event.
Retry(s) ==
    /\ inv[s].pc = "raised"
    /\ inv[s].retries < RetryAttempts
    /\ inv' = [inv EXCEPT ![s] =
                  [Interpret(inv[s].event) EXCEPT !.retries = inv[s].retries + 1]]
    /\ UNCHANGED <<pool, store, budget, channels, pending, done>>

\* The last run raised too: the invocation has failed, its failure record is
\* due, and the execution environment is free again.
RetriesExhausted(s) ==
    /\ inv[s].pc = "raised"
    /\ inv[s].retries = RetryAttempts
    /\ pending' = Append(pending, FailureRecord(inv[s]))
    /\ done' = Append(done, inv[s])
    /\ inv' = [inv EXCEPT ![s] = Idle]
    /\ UNCHANGED <<pool, store, budget, channels>>

\* The handler returned: the invocation is over and the execution
\* environment is free again.
Finish(s) ==
    /\ inv[s].pc = "returned"
    /\ done' = Append(done, inv[s])
    /\ inv' = [inv EXCEPT ![s] = Idle]
    /\ UNCHANGED <<pool, store, budget, channels, pending>>

\* Lambda sends a failure record that is due to the on-failure destination
\* of the function.
OnFailure ==
    \E i \in DOMAIN pending :
        /\ channels' = [channels EXCEPT ![OnFailureDestination] =
                            Append(@, pending[i])]
        /\ pending' = SubSeq(pending, 1, i - 1) \o SubSeq(pending, i + 1, Len(pending))
        /\ UNCHANGED <<pool, store, budget, inv, done>>

Step(s) ==
    \/ Deliver(s)
    \/ DescribeOk(s)
    \/ DescribeFail(s)
    \/ PublishOk(s)
    \/ PublishFail(s)
    \/ Retry(s)
    \/ RetriesExhausted(s)
    \/ Finish(s)

Next ==
    \/ \E s \in Slots : Step(s)
    \/ OnFailure

Spec == Init /\ [][Next]_vars

SpecEval == InitEval /\ [][Next]_vars

\* Lambda does not stop while there is something for it to do: an event to
\* deliver, a run to go on with or to repeat, a failure record to send.
FairSpec ==
    /\ InitCrash
    /\ [][Next]_vars
    /\ WF_vars(Next)

----------------------------------------------------------------------------
(* What the properties speak about *)

Range(f) == {f[i] : i \in DOMAIN f}

\* Every invocation so far, running or over.
Runs == {r \in {inv[s] : s \in Slots} \cup Range(done) : r.pc # "idle"}

\* The handler has ended, by a return or by an exception.
Over(r) == r.pc \in {"returned", "raised"}

\* The field or the substructure is missing.
Absent == "<absent>"

\* The describe call of the invocation returned operation details.
Fetched(r) == r.queries = 1 /\ r.error # "QueryError"

StatusOf(r) ==
    IF "Status" \in DOMAIN r.operation_details
    THEN r.operation_details["Status"].str
    ELSE Absent

HasDetails(r) == "StackSetDriftDetectionDetails" \in DOMAIN r.operation_details

\* The driftStatus of the fetched details, Absent when the field or the whole
\* substructure is missing.
DriftStatusOf(r) ==
    IF HasDetails(r)
         /\ "DriftStatus" \in DOMAIN r.operation_details["StackSetDriftDetectionDetails"].dict
    THEN r.operation_details["StackSetDriftDetectionDetails"].dict["DriftStatus"].str
    ELSE Absent

\* The classification table: first match wins.
Outcome(r) ==
    IF StatusOf(r) \in {"FAILED", "STOPPED"} THEN "OPERATION_FAILED"
    ELSE IF DriftStatusOf(r) \notin {Absent, "IN_SYNC"} THEN "DRIFT_DETECTED"
    ELSE IF DriftStatusOf(r) = Absent THEN "INDETERMINATE"
    ELSE "CLEAN"

Contains(s, part) ==
    \E i \in 1..(Len(s) + 1 - Len(part)) : SubSeq(s, i, i + Len(part) - 1) = part

ArnOf(r) == r.event["detail"]["stack-set-arn"]

\* The event parsed: the handler reached the describe call.
Parsed(r) == r.stackset_operation_id # Unset

\* The segment after the marker at position i: up to the next ":" .
SegmentAfter(arn, i) ==
    LET rest == SubSeq(arn, i + 2, Len(arn))
        j == Find(rest, Colon)
    IN SubSeq(rest, 1, j - 1)

\* The places of arn where the marker stands and is followed, later, by ":".
MarkerPlaces(arn) ==
    {i \in 1..(Len(arn) - 1) :
        /\ SubSeq(arn, i, i + 1) = Marker
        /\ Find(SubSeq(arn, i + 2, Len(arn)), Colon) > 0}

\* The compound form: the marker, then the name, then a terminating ":".
CompoundForm(arn) == MarkerPlaces(arn) # {}

WellFormedEvent(e) ==
    /\ "detail" \in DOMAIN e
    /\ {"stack-set-arn", "stack-set-operation-id"} \subseteq DOMAIN e["detail"]
    /\ CompoundForm(e["detail"]["stack-set-arn"])

\* A written value renders a fetched one: a dict key by key with the same
\* keys, a list element by element, a datetime as a str, every other value
\* as itself.
RECURSIVE Renders(_, _)
Renders(written, fetched) ==
    IF "dict" \in DOMAIN fetched
    THEN /\ "dict" \in DOMAIN written
         /\ DOMAIN written.dict = DOMAIN fetched.dict
         /\ \A k \in DOMAIN fetched.dict : Renders(written.dict[k], fetched.dict[k])
    ELSE IF "list" \in DOMAIN fetched
    THEN /\ "list" \in DOMAIN written
         /\ Len(written.list) = Len(fetched.list)
         /\ \A i \in DOMAIN fetched.list : Renders(written.list[i], fetched.list[i])
    ELSE IF "datetime" \in DOMAIN fetched
    THEN "str" \in DOMAIN written
    ELSE written = fetched

\* The body of a published message carries every field of the fetched
\* details under the key "default", the datetimes as their str.
CarriesDetails(message, r) ==
    /\ "dict" \in DOMAIN message
    /\ DOMAIN message.dict = {"default"}
    /\ Renders(message.dict["default"], Dict(r.operation_details))

----------------------------------------------------------------------------
(* Properties *)

\* C1: an invocation whose status query returned calls publish exactly once
\* when the outcome of the classification table is OPERATION_FAILED,
\* DRIFT_DETECTED or INDETERMINATE and not at all when status is SUCCEEDED and
\* driftStatus IN_SYNC; no invocation calls publish twice, and a failed
\* publish is not tried again.
C1_PublishOncePerNonClean ==
    \A r \in Runs :
        /\ r.attempts <= 1
        /\ Len(r.pubs) <= r.attempts
        /\ (r.error = "NotificationError" => Over(r) /\ r.attempts = 1 /\ r.pubs = <<>>)
        /\ (WellFormedEvent(r.event) /\ r.stackset_name # <<>> /\ Fetched(r) /\ Over(r) =>
              /\ (Outcome(r) \in {"OPERATION_FAILED", "DRIFT_DETECTED", "INDETERMINATE"}
                    => r.attempts = 1)
              /\ (StatusOf(r) = "SUCCEEDED" /\ DriftStatusOf(r) = "IN_SYNC"
                    => r.attempts = 0))

\* C2: when the fetched status is FAILED or STOPPED, whatever the driftStatus
\* and also when the drift substructure is missing, one notification is
\* published, its subject starts with "ERROR:" and contains the stackset
\* name, and it is no "DRIFTED:" notification.
C2_FailedAlwaysError ==
    \A r \in Runs :
        (/\ WellFormedEvent(r.event) /\ r.stackset_name # <<>>
         /\ Fetched(r) /\ Over(r)
         /\ StatusOf(r) \in {"FAILED", "STOPPED"}
         /\ r.error # "NotificationError")
        => /\ Len(r.pubs) = 1
           /\ r.pubs[1].Subject[1] = "ERROR:"
           /\ Contains(r.pubs[1].Subject, r.stackset_name)
           /\ \A i \in DOMAIN r.pubs : r.pubs[i].Subject[1] # "DRIFTED:"

\* C3: when the fetched status is neither FAILED nor STOPPED and driftStatus
\* is present and not IN_SYNC, one notification is published, its subject
\* starts with "DRIFTED:" and contains the stackset name, and its body is
\* the fetched operation details.
C3_DriftNotification ==
    \A r \in Runs :
        (/\ Fetched(r) /\ Over(r)
         /\ StatusOf(r) \notin {"FAILED", "STOPPED"}
         /\ DriftStatusOf(r) \notin {Absent, "IN_SYNC"}
         /\ r.error # "NotificationError")
        => /\ Len(r.pubs) = 1
           /\ r.pubs[1].Subject[1] = "DRIFTED:"
           /\ Contains(r.pubs[1].Subject, r.stackset_name)
           /\ CarriesDetails(r.pubs[1].Message, r)
           /\ \E i \in DOMAIN channels[NOTIFICATION_TOPIC_ARN] :
                 channels[NOTIFICATION_TOPIC_ARN][i] = r.pubs[1]

C3_Witness ==
    \E r \in Runs :
        /\ Fetched(r) /\ r.pc = "returned"
        /\ StatusOf(r) = "RUNNING"
        /\ DriftStatusOf(r) = "NOT_CHECKED"
        /\ Len(r.pubs) = 1
        /\ r.pubs[1].Message.dict["default"].dict["OperationPreferences"]
              = OperationPreferences
        /\ "str" \in DOMAIN r.pubs[1].Message.dict["default"].dict["CreationTimestamp"]

\* C4: when the fetched status is SUCCEEDED and the drift details are missing
\* altogether, the invocation does not return normally with nothing
\* reported, and publishes neither a DRIFTED nor an ERROR notification: it
\* ends with the KeyError of the read of the drift details.
C4_NoDetailsNotClean ==
    \A r \in Runs :
        (Fetched(r) /\ Over(r) /\ StatusOf(r) = "SUCCEEDED" /\ ~HasDetails(r))
        => /\ r.pc # "returned"
           /\ r.error = "KeyError"
           /\ r.attempts = 0
           /\ r.pubs = <<>>

C4_Witness ==
    \E r \in Runs :
        Fetched(r) /\ Over(r) /\ StatusOf(r) = "SUCCEEDED" /\ ~HasDetails(r)

\* C5: an event without target reference or operation id, or whose reference
\* is not of the compound form, never gets as far as the status query or a
\* publish.
C5_MalformedRejected ==
    \A r \in Runs : ~WellFormedEvent(r.event) => r.queries = 0 /\ r.attempts = 0

\* C6 as stated: the name used is the segment after the marker, up to the
\* next ":", wherever in the reference the marker stands.
C6_NameAfterAnyMarker ==
    \A r \in Runs :
        Parsed(r) /\ CompoundForm(ArnOf(r)) =>
            \A i \in MarkerPlaces(ArnOf(r)) :
                r.stackset_name = SegmentAfter(ArnOf(r), i)

\* C6 as amended: the name used in the status query and in the subject is
\* the segment after the first occurrence of the marker, up to the next ":".
C6_NameAfterFirstMarker ==
    \A r \in Runs :
        Parsed(r) /\ CompoundForm(ArnOf(r)) =>
            LET first == CHOOSE i \in MarkerPlaces(ArnOf(r)) :
                            \A j \in MarkerPlaces(ArnOf(r)) : i <= j
                name == SegmentAfter(ArnOf(r), first)
            IN /\ r.stackset_name = name
               /\ \A i \in DOMAIN r.pubs :
                     SubSeq(r.pubs[i].Subject, 3, Len(r.pubs[i].Subject) - 1) = name

C6_Witness ==
    \E r \in Runs :
        /\ Parsed(r) /\ Len(r.pubs) = 1
        /\ Cardinality(MarkerPlaces(ArnOf(r))) = 2
        /\ r.stackset_name # <<>>

\* C7: a failed status query ends the invocation with the error, without a
\* publish and without a second query; a publish is only ever called after
\* the query of the same invocation returned.
C7_QueryErrorAborts ==
    \A r \in Runs :
        /\ r.queries <= 1
        /\ (r.error = "QueryError" =>
              Over(r) /\ r.queries = 1 /\ r.attempts = 0 /\ r.pubs = <<>>)
        /\ (r.attempts > 0 \/ r.pc = "publish" => Fetched(r))

C7_Witness ==
    \E i \in DOMAIN done :
        done[i].error = "QueryError" /\ done[i].pc = "raised" /\ done[i].queries = 1

\* C8: invocations for the same event that fetch the same details publish
\* the same, however many there are and whatever ran in between; the topic
\* holds one copy of the message per such invocation.
C8_NoDeduplication ==
    /\ \A r1, r2 \in Runs :
          (/\ r1.pc = "returned" /\ r2.pc = "returned"
           /\ r1.event = r2.event
           /\ r1.operation_details = r2.operation_details)
          => r1.pubs = r2.pubs
    /\ \A r \in Runs :
          r.pc = "returned" /\ Outcome(r) # "CLEAN" => Len(r.pubs) = 1
    /\ \A m \in Range(channels[NOTIFICATION_TOPIC_ARN]) :
          Cardinality({i \in DOMAIN channels[NOTIFICATION_TOPIC_ARN] :
                          channels[NOTIFICATION_TOPIC_ARN][i] = m})
            >= Cardinality({j \in DOMAIN done : done[j].pubs = <<m>>})

C8_Witness ==
    /\ Len(done) = 3
    /\ done[1].event = done[3].event
    /\ done[1].operation_details = done[3].operation_details
    /\ done[2].event # done[1].event
    /\ Len(done[1].pubs) = 1
    /\ Len(done[2].pubs) = 1
    /\ done[3].pubs = done[1].pubs
    /\ Len(channels[NOTIFICATION_TOPIC_ARN]) = 3

\* What the notification topic holds of an invocation that is over.
OnTopic(r) ==
    \/ \E i \in DOMAIN channels[NOTIFICATION_TOPIC_ARN] :
          channels[NOTIFICATION_TOPIC_ARN][i] = FailureRecord(r)
    \/ \E i \in DOMAIN channels[NOTIFICATION_TOPIC_ARN] :
          <<channels[NOTIFICATION_TOPIC_ARN][i]>> = r.pubs

\* The invocation ended as a clean return or with a message on the topic.
Reported(r) ==
    \/ r.pc = "returned" /\ r.attempts = 0
    \/ OnTopic(r)

\* Nothing runs and no failure record is due.
Quiet == pending = <<>> /\ \A s \in Slots : inv[s].pc = "idle"

\* C9: every invocation that ends in an unhandled error, its last run
\* having raised, leads to a failure record on the notification topic, so
\* every delivered event ends as a clean return or with a message on that
\* topic: the failure record of a failed invocation is due until it is on
\* the topic, and in the end nothing is due and every invocation there was
\* is reported.
C9_CrashesNotSilent ==
    /\ [](\A i \in DOMAIN done :
              \/ Reported(done[i])
              \/ done[i].pc = "raised" /\ FailureRecord(done[i]) \in Range(pending))
    /\ <>[](Quiet /\ \A i \in DOMAIN done : Reported(done[i]))

C9_Witness ==
    /\ Quiet
    /\ \E i \in DOMAIN done :
          /\ done[i].error = "IndexError" /\ done[i].retries = RetryAttempts
          /\ OnTopic(done[i])
    /\ \E i \in DOMAIN done :
          /\ done[i].error = "NotificationError" /\ done[i].retries = RetryAttempts
          /\ OnTopic(done[i])

\* C10: an invocation returns normally without publishing only when the
\* fetched status is SUCCEEDED and driftStatus is IN_SYNC.
C10_CleanOnlyIfSucceededInSync ==
    \A r \in Runs :
        (/\ WellFormedEvent(r.event) /\ r.stackset_name # <<>>
         /\ r.pc = "returned" /\ r.attempts = 0) =>
            StatusOf(r) = "SUCCEEDED" /\ DriftStatusOf(r) = "IN_SYNC"

====
